---- MODULE Spec2Model ----
(***************************************************************************)
(* Feature-consistency and drift-detection pipeline of the web traffic     *)
(* forecasting service: the /report and /predict handlers (app/main.py),   *)
(* the serving feature builder (app/features.py), the schema enforcer      *)
(* (app/model_utils.py), the two training scripts (scripts/train.py,       *)
(* scripts/retrain.py) and the drift check (scripts/check_drift.py).       *)
(*                                                                         *)
(* Numbers held in a pandas table are modelled as exact rationals          *)
(* [n |-> numerator, d |-> denominator]; NaN/None/NaT is 0/0.  Floating    *)
(* point rounding is not modelled.                                         *)
(***************************************************************************)
EXTENDS Integers, Sequences, FiniteSets, TLC

VARIABLES
    store,        \* data/traffic.csv: [exists, lines]
    modelFile,    \* models/traffic_model.joblib: [exists, complete, cols, nfit, bias]
    driftFile,    \* data/drift_metrics.json: [exists, report]
    resp,         \* outcome of the last handler or script run
    predictCall,  \* the model.predict invocation of the last run: [made, X, fitted]
    arg,          \* input of the function under study
    ret,          \* its result
    wpc,          \* position of the process writing the model artifact
    loaded        \* what each reader obtained from the model artifact

vars == <<store, modelFile, driftFile, resp, predictCall, arg, ret, wpc, loaded>>

-----------------------------------------------------------------------------
(* Bounds of the model *)

MaxStoreRows == 3      \* data rows a store grows to under SpecStore
MaxPipeRows == 4       \* data rows a store grows to under Spec
MaxTableRows == 3      \* rows of a table handed to the schema enforcer
MaxHistory == 4        \* observations of a history handed to the feature derivers
MaxValidRows == 24     \* well-formed store rows in a drift check
MaxBadRows == 2        \* malformed store rows in a drift check

-----------------------------------------------------------------------------
(* Numbers, NaN and optional request fields *)

R(k) == [n |-> k, d |-> 1]
NaN == [n |-> 0, d |-> 0]
IsNa(v) == v.d = 0

Abs(k) == IF k < 0 THEN -k ELSE k

RECURSIVE Gcd(_, _)
Gcd(a, b) == IF b = 0 THEN a ELSE Gcd(b, a % b)

\* the rational num/den, den > 0, in lowest terms
Frac(num, den) ==
    LET g == Gcd(Abs(num), den)
    IN  [n |-> num \div g, d |-> den \div g]

\* an optional JSON field: left out, sent as null, or sent with a value
Absent == [tag |-> "absent"]
Null == [tag |-> "null"]
Some(x) == [tag |-> "val", v |-> x]

-----------------------------------------------------------------------------
(* Timestamps.  An instant is a number of hours since 2025-01-01 00:00, a  *)
(* Wednesday.  A timestamp text is [fmt, t]: the instant t written in the  *)
(* format fmt; "garbage" and "empty" are texts no parser accepts.          *)

TextFormats == {"iso", "space", "space_nosec"}

CumDays == <<0, 31, 59, 90, 120, 151, 181, 212, 243, 273, 304, 334, 365>>

ts_hour(t) == t % 24
ts_dayofweek(t) == ((t \div 24) + 2) % 7
ts_month(t) ==
    LET doy == (t \div 24) % 365
    IN  CHOOSE m \in 1..12 : CumDays[m] <= doy /\ doy < CumDays[m + 1]
ts_day(t) == ((t \div 24) % 365) - CumDays[ts_month(t)] + 1

Parseable(text) == text.fmt \in TextFormats

\* dateutil.parser.parse: the instant a text denotes
dateparser_parse(text) == text.t

\* ts.strftime("%Y-%m-%d %H:%M:%S")
strftime(t) == [fmt |-> "space", t |-> t]

\* pd.to_datetime(..., errors="coerce")
to_datetime_coerce(text) == IF Parseable(text) THEN R(dateparser_parse(text)) ELSE NaN

-----------------------------------------------------------------------------
(* The observation store, data/traffic.csv *)

HeaderLine == [kind |-> "header", cells |-> <<"timestamp", "page_views", "is_festival">>]
RowLine(ts, pv, fest) == [kind |-> "row", timestamp |-> ts, page_views |-> pv, is_festival |-> fest]

NoFile == [exists |-> FALSE, lines |-> <<>>]

DataRows(st) == SelectSeq(st.lines, LAMBDA l : l.kind = "row")

Resp(op, status, err, req) == [op |-> op, status |-> status, err |-> err, req |-> req]
NoResp == [op |-> "none"]
NoCall == [made |-> FALSE]

\* pydantic's ReportRequest: is_festival left out takes the default 0
ReportRequest(raw) ==
    [raw EXCEPT !.is_festival = IF raw.is_festival = Absent THEN Some(0) ELSE raw.is_festival]

\* The file after the with-block of report: open(DATA_CSV, "a") creates it,
\* the header goes in if it did not exist before, and the data row goes in
\* only if building it raised nothing (int(None) raises TypeError).
report_written_RawText(st, ts, req) ==
    LET head == IF st.exists THEN <<>> ELSE <<HeaderLine>>
        row == IF req.is_festival = Null THEN <<>>
               ELSE <<RowLine(req.timestamp.v, req.actual_page_views.v, req.is_festival.v)>>
    IN  [exists |-> TRUE, lines |-> st.lines \o head \o row]

report_written(st, ts, req) ==
    LET head == IF st.exists THEN <<>> ELSE <<HeaderLine>>
        row == IF req.is_festival = Null THEN <<>>
               ELSE <<RowLine(strftime(ts), req.actual_page_views.v, req.is_festival.v)>>
    IN  [exists |-> TRUE, lines |-> st.lines \o head \o row]

\* POST /report.  open_ok is the environment: whether open() succeeds.
report(raw, open_ok) ==
    LET req == ReportRequest(raw) IN
    /\ IF raw.timestamp.tag # "val"
       THEN \* pydantic rejects the body before the handler runs
            /\ resp' = Resp("report", 422, "validation", raw)
            /\ store' = store
       ELSE IF ~Parseable(req.timestamp.v)
       THEN /\ resp' = Resp("report", 400, "Invalid timestamp format", raw)
            /\ store' = store
       ELSE IF ~open_ok
       THEN /\ resp' = Resp("report", 500, "Failed to write CSV", raw)
            /\ store' = store
       ELSE /\ store' = report_written(store, dateparser_parse(req.timestamp.v), req)
            /\ resp' = IF req.is_festival = Null
                       THEN Resp("report", 500, "Failed to write CSV", raw)
                       ELSE Resp("report", 200, "ok", raw)
    /\ predictCall' = NoCall
    /\ UNCHANGED <<modelFile, driftFile, arg, ret, wpc, loaded>>

-----------------------------------------------------------------------------
(* Tables (pandas DataFrames): [cols, rows], cols a sequence of column     *)
(* names and each row a function from the column names to cells            *)

Range(s) == {s[i] : i \in 1..Len(s)}

HasCol(X, c) == c \in Range(X.cols)

\* X[c] = v for a column c that X lacks: the new column goes last
AddCol(X, c, v) ==
    [cols |-> Append(X.cols, c),
     rows |-> [i \in 1..Len(X.rows) |-> [k \in Range(X.cols) \cup {c} |->
                  IF k = c THEN v ELSE X.rows[i][k]]]]

\* X[c] = vals, one cell per row, replacing the column if X has it
SetCol(X, c, vals) ==
    [cols |-> IF HasCol(X, c) THEN X.cols ELSE Append(X.cols, c),
     rows |-> [i \in 1..Len(X.rows) |-> [k \in Range(X.cols) \cup {c} |->
                  IF k = c THEN vals[i] ELSE X.rows[i][k]]]]

\* X[cols]
SelectCols(X, cols) ==
    [cols |-> cols,
     rows |-> [i \in 1..Len(X.rows) |-> [k \in Range(cols) |-> X.rows[i][k]]]]

\* X.dropna(): the rows with no null cell, in order
dropna(X) ==
    [X EXCEPT !.rows = SelectSeq(X.rows, LAMBDA r : \A k \in DOMAIN r : ~IsNa(r[k]))]

RAdd(a, b) == Frac(a.n * b.d + b.n * a.d, a.d * b.d)

RECURSIVE RSum(_)
RSum(s) == IF s = <<>> THEN R(0) ELSE RAdd(Head(s), RSum(Tail(s)))

RAbsDiff(a, b) == Frac(Abs(a.n * b.d - b.n * a.d), a.d * b.d)

\* X[c] as a sequence of cells
Column(X, c) == [i \in 1..Len(X.rows) |-> X.rows[i][c]]

\* X[c].mean(): the mean of the non-null cells (NaN if there is none)
col_mean(X, c) ==
    LET present == SelectSeq(Column(X, c), LAMBDA v : ~IsNa(v))
        total == RSum(present)
    IN  IF present = <<>> THEN NaN ELSE Frac(total.n, total.d * Len(present))

-----------------------------------------------------------------------------
(* app/features.py and app/model_utils.py: the serving path *)

FEATURE_COLS == <<"lag_1", "lag_2", "hour", "day_of_week", "month", "is_weekend", "is_festival">>
LAG_COLS == <<"lag_1", "lag_2">>

is_weekend_of(dow) == IF dow >= 5 THEN 1 ELSE 0

\* _parse_timestamp: None or a text the parser rejects raises ValueError
_parse_timestamp(field) ==
    IF field.tag # "val" THEN [ok |-> FALSE, err |-> "timestamp is required"]
    ELSE IF ~Parseable(field.v) THEN [ok |-> FALSE, err |-> "Invalid timestamp format"]
    ELSE [ok |-> TRUE, ts |-> dateparser_parse(field.v)]

OptCell(field) == IF field.tag = "val" THEN R(field.v) ELSE NaN

\* the one-row table make_features builds for a parsed timestamp
feature_row(ts, lag_1, lag_2, is_festival) ==
    LET dow == ts_dayofweek(ts) IN
    [cols |-> FEATURE_COLS,
     rows |-> << [lag_1 |-> OptCell(lag_1),
                  lag_2 |-> OptCell(lag_2),
                  hour |-> R(ts_hour(ts)),
                  day_of_week |-> R(dow),
                  month |-> R(ts_month(ts)),
                  is_weekend |-> R(is_weekend_of(dow)),
                  is_festival |-> IF is_festival.tag = "val" THEN R(is_festival.v) ELSE R(0)] >>]

make_features(timestamp, lag_1, lag_2, is_festival) ==
    LET p == _parse_timestamp(timestamp) IN
    IF ~p.ok THEN [ok |-> FALSE, err |-> p.err]
    ELSE [ok |-> TRUE, X |-> feature_row(p.ts, lag_1, lag_2, is_festival)]

\* the fill value of a canonical column the input lacks
default_cell_AllZero(col) == R(0)

default_cell(col) == IF col \in Range(LAG_COLS) THEN NaN ELSE R(0)

RECURSIVE fill_missing(_, _)
fill_missing(X, cols) ==
    IF cols = <<>> THEN X
    ELSE LET c == Head(cols)
             X1 == IF HasCol(X, c) THEN X ELSE AddCol(X, c, default_cell(c))
         IN  fill_missing(X1, Tail(cols))

_ensure_columns(X) == SelectCols(fill_missing(X, FEATURE_COLS), FEATURE_COLS)

AnyNa(X, c) == \E i \in 1..Len(X.rows) : IsNa(X.rows[i][c])
AllNa(X, c) == \A i \in 1..Len(X.rows) : IsNa(X.rows[i][c])

\* one pass of the loop body of predict_from_df over a lag column
impute_col_ZeroFill(X, c) == SetCol(X, c, [i \in 1..Len(X.rows) |-> IF IsNa(X.rows[i][c]) THEN R(0) ELSE X.rows[i][c]])

impute_col(X, c) ==
    IF AllNa(X, c) THEN SetCol(X, c, [i \in 1..Len(X.rows) |-> R(0)])
    ELSE LET mean_val == col_mean(X, c)
         IN  SetCol(X, c, [i \in 1..Len(X.rows) |-> IF IsNa(X.rows[i][c]) THEN mean_val ELSE X.rows[i][c]])

\* the table predict_from_df hands to model.predict
impute_lags(Xp) ==
    IF AnyNa(Xp, "lag_1") \/ AnyNa(Xp, "lag_2")
    THEN impute_col(impute_col(Xp, "lag_1"), "lag_2")
    ELSE Xp

\* model.predict: a fitted regressor rejects a table with no rows or with a
\* number of columns other than what it was fitted on; the regressor itself
\* is opaque, and is modelled as lag_1 + bias with the bias chosen when it
\* was fitted
model_predict_ok(m, X) == Len(X.rows) > 0 /\ Len(X.cols) = Len(m.cols)
model_predict(m, X) ==
    [i \in 1..Len(X.rows) |->
        LET v == X.rows[i]["lag_1"] IN Frac(v.n + m.bias * v.d, v.d)]

\* predict_from_df on the artifact m: whether model.predict was reached, the
\* table it was handed, and the predictions or the exception
predict_from_df(m, X) ==
    IF ~m.exists THEN [ok |-> FALSE, called |-> FALSE, err |-> "Model not found"]
    ELSE LET Xp == impute_lags(_ensure_columns(X)) IN
         IF model_predict_ok(m, Xp)
         THEN [ok |-> TRUE, called |-> TRUE, Xp |-> Xp, preds |-> model_predict(m, Xp)]
         ELSE [ok |-> FALSE, called |-> TRUE, Xp |-> Xp, err |-> "model.predict"]

CallOf(m, p) == IF p.called THEN [made |-> TRUE, X |-> p.Xp, fitted |-> m.cols] ELSE NoCall

\* pydantic's PredictRequest: is_festival left out takes the default 0,
\* lag_1 and lag_2 left out are None
PredictRequest(raw) ==
    [raw EXCEPT !.is_festival = IF raw.is_festival = Absent THEN Some(0) ELSE raw.is_festival,
                !.lag_1 = IF raw.lag_1 = Absent THEN Null ELSE raw.lag_1,
                !.lag_2 = IF raw.lag_2 = Absent THEN Null ELSE raw.lag_2]

\* POST /predict.  An exception the handler does not catch is answered 500.
predict(raw) ==
    LET req == PredictRequest(raw)
        f == make_features(req.timestamp, req.lag_1, req.lag_2, req.is_festival)
        p == predict_from_df(modelFile, f.X)
    IN
    /\ IF raw.timestamp.tag # "val"
       THEN /\ resp' = Resp("predict", 422, "validation", raw)
            /\ predictCall' = NoCall
       ELSE IF ~f.ok
       THEN /\ resp' = Resp("predict", 500, f.err, raw)
            /\ predictCall' = NoCall
       ELSE /\ predictCall' = CallOf(modelFile, p)
            /\ resp' = IF p.ok
                       THEN [op |-> "predict", status |-> 200, err |-> "ok", req |-> raw,
                             prediction |-> p.preds[1]]
                       ELSE Resp("predict", 500, p.err, raw)
    /\ UNCHANGED <<store, modelFile, driftFile, arg, ret, wpc, loaded>>

-----------------------------------------------------------------------------
(* scripts/retrain.py, scripts/check_drift.py, scripts/train.py: the       *)
(* training and drift path                                                 *)

CSV_COLS == <<"timestamp", "page_views", "is_festival">>

\* pd.read_csv of the store: one table row per data line
read_csv(st) ==
    LET rs == DataRows(st) IN
    [cols |-> CSV_COLS,
     rows |-> [i \in 1..Len(rs) |->
                 [timestamp |-> rs[i].timestamp,
                  page_views |-> R(rs[i].page_views),
                  is_festival |-> R(rs[i].is_festival)]]]

\* df.sort_values("timestamp"): ties keep their order
RECURSIVE insert_sorted(_, _)
insert_sorted(sorted, r) ==
    IF sorted = <<>> THEN <<r>>
    ELSE IF sorted[Len(sorted)]["timestamp"].n <= r["timestamp"].n THEN Append(sorted, r)
    ELSE Append(insert_sorted(SubSeq(sorted, 1, Len(sorted) - 1), r), sorted[Len(sorted)])

RECURSIVE sort_rows(_)
sort_rows(rows) ==
    IF rows = <<>> THEN <<>>
    ELSE insert_sorted(sort_rows(SubSeq(rows, 1, Len(rows) - 1)), rows[Len(rows)])

sort_values(df) == [df EXCEPT !.rows = sort_rows(df.rows)]

\* the parse, quarantine, drop and sort that load_data and load_recent_data share
parse_and_sort(st) ==
    LET raw == read_csv(st)
        parsed == SetCol(raw, "timestamp", [i \in 1..Len(raw.rows) |-> to_datetime_coerce(raw.rows[i]["timestamp"])])
        good == [parsed EXCEPT !.rows = SelectSeq(parsed.rows, LAMBDA r : ~IsNa(r["timestamp"]))]
    IN  [df |-> sort_values(good), num_bad |-> Len(parsed.rows) - Len(good.rows)]

\* retrain.load_data
load_data(st) ==
    IF ~st.exists THEN [ok |-> FALSE, err |-> "No data found"]
    ELSE LET p == parse_and_sort(st)
         IN  [ok |-> TRUE, df |-> p.df, num_bad |-> p.num_bad]

window == 20

\* check_drift.load_recent_data: the last w valid rows
tail(df, w) ==
    [df EXCEPT !.rows = SubSeq(df.rows, IF Len(df.rows) > w THEN Len(df.rows) - w + 1 ELSE 1,
                               Len(df.rows))]

enough_rows_NoMargin(n, w) == n >= w

enough_rows(n, w) == n >= w + 2

load_recent_data(st, w) ==
    IF ~st.exists THEN [ok |-> FALSE, err |-> [msg |-> "No data found"]]
    ELSE LET p == parse_and_sort(st) IN
         IF ~enough_rows(Len(p.df.rows), w)
         THEN [ok |-> FALSE, num_bad |-> p.num_bad,
               err |-> [msg |-> "Not enough valid data", need |-> w + 2, got |-> Len(p.df.rows)]]
         ELSE [ok |-> TRUE, df |-> tail(p.df, w), num_bad |-> p.num_bad]

\* df[c].shift(k): the cell k rows earlier, null for the first k rows
shift(df, c, k, i) == IF i - k >= 1 THEN df.rows[i - k][c] ELSE NaN

lagged_ShiftTwice(df, k, i) == shift(df, "page_views", 2 * k, i)

lagged(df, k, i) == shift(df, "page_views", k, i)

\* the lag and calendar columns both scripts add
with_lags(df) ==
    LET d1 == SetCol(df, "lag_1", [i \in 1..Len(df.rows) |-> lagged(df, 1, i)])
    IN  SetCol(d1, "lag_2", [i \in 1..Len(d1.rows) |-> lagged(df, 2, i)])

with_calendar(df) ==
    LET d1 == SetCol(df, "hour", [i \in 1..Len(df.rows) |-> R(ts_hour(df.rows[i]["timestamp"].n))])
        d2 == SetCol(d1, "day_of_week", [i \in 1..Len(d1.rows) |-> R(ts_dayofweek(df.rows[i]["timestamp"].n))])
        d3 == SetCol(d2, "month", [i \in 1..Len(d2.rows) |-> R(ts_month(df.rows[i]["timestamp"].n))])
    IN  SetCol(d3, "is_weekend", [i \in 1..Len(d3.rows) |-> R(is_weekend_of(d3.rows[i]["day_of_week"].n))])

\* check_drift.build_features
build_features(df) == dropna(with_calendar(with_lags(df)))

\* retrain.build_training_features
build_training_features(df) ==
    LET d == dropna(with_calendar(with_lags(df)))
    IN  [X |-> SelectCols(d, FEATURE_COLS), y |-> Column(d, "page_views")]

\* joblib.dump run to completion
Artifact(cols, nfit, bias) ==
    [exists |-> TRUE, complete |-> TRUE, cols |-> cols, nfit |-> nfit, bias |-> bias]
NoModel == [exists |-> FALSE]

\* retrain.train_model's fit: model.fit rejects a table with no rows
retrain_fit(st, bias) ==
    LET ld == load_data(st)
        f == build_training_features(ld.df)
    IN  IF ~ld.ok THEN [ok |-> FALSE, err |-> ld.err]
        ELSE IF Len(f.X.rows) = 0 THEN [ok |-> FALSE, err |-> "fit: no samples"]
        ELSE [ok |-> TRUE, model |-> Artifact(f.X.cols, Len(f.X.rows), bias)]

\* scripts/retrain.py, run from start to end.  bias stands for what the
\* regressor learnt.
train_model(bias) ==
    LET f == retrain_fit(store, bias) IN
    /\ IF f.ok
       THEN /\ modelFile' = f.model
            /\ resp' = Resp("retrain", 0, "ok", <<>>)
       ELSE /\ modelFile' = modelFile
            /\ resp' = Resp("retrain", 1, f.err, <<>>)
    /\ predictCall' = NoCall
    /\ UNCHANGED <<store, driftFile, arg, ret, wpc, loaded>>

LEGACY_COLS == <<"hour", "day", "month", "lag_1", "lag_2", "is_festival">>

\* scripts/train.py: pd.to_datetime without coercion raises on a malformed
\* text; train_test_split(test_size=0.2) needs a sample on each side
train_py_fit(st, bias) ==
    LET raw == read_csv(st)
        df == SetCol(raw, "timestamp", [i \in 1..Len(raw.rows) |-> to_datetime_coerce(raw.rows[i]["timestamp"])])
        d1 == SetCol(df, "hour", [i \in 1..Len(df.rows) |-> R(ts_hour(df.rows[i]["timestamp"].n))])
        d2 == SetCol(d1, "day", [i \in 1..Len(d1.rows) |-> R(ts_day(df.rows[i]["timestamp"].n))])
        d3 == SetCol(d2, "month", [i \in 1..Len(d2.rows) |-> R(ts_month(df.rows[i]["timestamp"].n))])
        d4 == dropna(with_lags(d3))
        X == SelectCols(d4, LEGACY_COLS)
        n == Len(X.rows)
        n_test == (n + 4) \div 5
    IN  IF ~st.exists THEN [ok |-> FALSE, err |-> "No such file"]
        ELSE IF \E i \in 1..Len(df.rows) : IsNa(df.rows[i]["timestamp"])
        THEN [ok |-> FALSE, err |-> "to_datetime"]
        ELSE IF n = 0 \/ n - n_test = 0 THEN [ok |-> FALSE, err |-> "train_test_split"]
        ELSE [ok |-> TRUE, model |-> Artifact(X.cols, n - n_test, bias)]

train_py(bias) ==
    LET f == train_py_fit(store, bias) IN
    /\ IF f.ok
       THEN /\ modelFile' = f.model
            /\ resp' = Resp("train", 0, "ok", <<>>)
       ELSE /\ modelFile' = modelFile
            /\ resp' = Resp("train", 1, f.err, <<>>)
    /\ predictCall' = NoCall
    /\ UNCHANGED <<store, driftFile, arg, ret, wpc, loaded>>

\* mean_absolute_error(y_true, y_pred)
mean_absolute_error(y_true, y_pred) ==
    LET total == RSum([i \in 1..Len(y_true) |-> RAbsDiff(y_true[i], y_pred[i])])
    IN  Frac(total.n, total.d * Len(y_true))

RLess(a, k) == a.n < k * a.d
RLessEq(a, k) == a.n <= k * a.d

\* the drift decision of detect_drift
drift_decision_Inclusive(mae) ==
    IF RLessEq(mae, 50) THEN "NO_DRIFT"
    ELSE IF RLessEq(mae, 120) THEN "MILD_DRIFT"
    ELSE "SEVERE_DRIFT"

drift_decision(mae) ==
    IF RLess(mae, 50) THEN "NO_DRIFT"
    ELSE IF RLess(mae, 120) THEN "MILD_DRIFT"
    ELSE "SEVERE_DRIFT"

\* drift_scores[col] = abs(df[col].mean() - df[col].iloc[0])
drift_score(df, c) == RAbsDiff(col_mean(df, c), df.rows[1][c])

\* what detect_drift does with the outcome ld of load_recent_data and the
\* artifact m: the exception that ends it, or the report it writes
drift_report(ld, m) ==
    IF ~ld.ok THEN [ok |-> FALSE, called |-> FALSE, err |-> ld.err]
    ELSE IF ~m.exists THEN [ok |-> FALSE, called |-> FALSE, err |-> [msg |-> "No model found"]]
    ELSE LET df == build_features(ld.df)
             X == SelectCols(df, FEATURE_COLS)
             y_true == Column(df, "page_views")
         IN  IF ~model_predict_ok(m, X)
             THEN [ok |-> FALSE, called |-> TRUE, Xp |-> X, err |-> [msg |-> "model.predict"]]
             ELSE LET mae == mean_absolute_error(y_true, model_predict(m, X))
                  IN  [ok |-> TRUE, called |-> TRUE, Xp |-> X,
                       report |-> [mae |-> mae,
                                   drift_scores |-> [c \in Range(FEATURE_COLS) |-> drift_score(df, c)],
                                   decision |-> drift_decision(mae)]]

\* scripts/check_drift.py, run from start to end
detect_drift ==
    LET d == drift_report(load_recent_data(store, window), modelFile) IN
    /\ predictCall' = CallOf(modelFile, d)
    /\ IF d.ok
       THEN /\ driftFile' = [exists |-> TRUE, report |-> d.report]
            /\ resp' = Resp("drift", 0, [msg |-> "ok"], <<>>)
       ELSE /\ driftFile' = driftFile
            /\ resp' = Resp("drift", 1, d.err, <<>>)
    /\ UNCHANGED <<store, modelFile, arg, ret, wpc, loaded>>

\* The writer and the readers of models/traffic_model.joblib as separate
\* processes.  joblib.dump opens the path for writing, which empties the
\* file, and the pickle is whole only when the dump returns.
retrain_begin(bias) ==
    LET f == retrain_fit(store, bias) IN
    /\ wpc.at = "idle"
    /\ f.ok
    /\ wpc' = [at |-> "dump", model |-> f.model]
    /\ UNCHANGED <<store, modelFile, driftFile, resp, predictCall, arg, ret, loaded>>

dump_open ==
    /\ wpc.at = "dump"
    /\ modelFile' = [wpc.model EXCEPT !.complete = FALSE]
    /\ wpc' = [wpc EXCEPT !.at = "writing"]
    /\ UNCHANGED <<store, driftFile, resp, predictCall, arg, ret, loaded>>

dump_close ==
    /\ wpc.at = "writing"
    /\ modelFile' = wpc.model
    /\ wpc' = [at |-> "idle"]
    /\ UNCHANGED <<store, driftFile, resp, predictCall, arg, ret, loaded>>

\* a reader's os.path.exists check and joblib.load
load_model(r) ==
    /\ loaded' = [loaded EXCEPT ![r] =
                    IF modelFile.exists THEN [state |-> "loaded", model |-> modelFile]
                    ELSE [state |-> "not_found"]]
    /\ UNCHANGED <<store, modelFile, driftFile, resp, predictCall, arg, ret, wpc>>

-----------------------------------------------------------------------------
(* Inputs *)

SUN_15 == 340 * 24 + 15     \* 2025-12-07 15:00, a Sunday
MON_09 == 341 * 24 + 9      \* 2025-12-08 09:00, a Monday

TsFields ==
    {Absent}
    \cup {Some([fmt |-> f, t |-> SUN_15]) : f \in {"iso", "space_nosec"}}
    \cup {Some([fmt |-> "iso", t |-> MON_09])}
    \cup {Some([fmt |-> "garbage", t |-> 0]), Some([fmt |-> "empty", t |-> 0])}

StoreReports ==
    [timestamp : TsFields,
     actual_page_views : {Some(100), Some(110)},
     is_festival : {Absent, Null, Some(1)}]

PipeTsFields ==
    {Absent,
     Some([fmt |-> "iso", t |-> SUN_15]),
     Some([fmt |-> "space_nosec", t |-> MON_09]),
     Some([fmt |-> "garbage", t |-> 0]),
     Some([fmt |-> "empty", t |-> 0])}

PipeReports ==
    [timestamp : PipeTsFields,
     actual_page_views : {Some(100), Some(110)},
     is_festival : {Absent}]

PipePredicts ==
    {[timestamp |-> ts, lag_1 |-> l[1], lag_2 |-> l[2], is_festival |-> Absent] :
        ts \in PipeTsFields, l \in {<<Absent, Absent>>, <<Some(120), Some(100)>>}}

InitAll ==
    /\ store = NoFile
    /\ modelFile = NoModel
    /\ driftFile = [exists |-> FALSE]
    /\ resp = NoResp
    /\ predictCall = NoCall
    /\ arg = <<>>
    /\ ret = <<>>
    /\ wpc = [at |-> "idle"]
    /\ loaded = <<>>

-----------------------------------------------------------------------------
(* Spec: the service from a fresh deployment: reports, predictions and the *)
(* two training scripts, one run at a time                                 *)

Init == InitAll

Next ==
    \/ \E raw \in PipeReports :
        /\ Len(DataRows(store)) < MaxPipeRows
        /\ report(raw, TRUE)
    \/ \E raw \in PipePredicts : predict(raw)
    \/ train_model(0)
    \/ train_py(0)

Spec == Init /\ [][Next]_vars

InvalidTs(field) == field.tag # "val" \/ ~Parseable(field.v)

\* C7: a prediction or report request whose timestamp is missing, empty or
\* unparseable is answered with a client-input error (4xx), the model is not
\* invoked and no row is appended to the store.
C7_InvalidTimestampIsClientError ==
    [][(resp'.op \in {"predict", "report"} /\ InvalidTs(resp'.req.timestamp))
        => /\ resp'.status \in {400, 422}
           /\ ~predictCall'.made
           /\ store' = store]_vars

-----------------------------------------------------------------------------
(* SpecStore: the observation store under a sequence of /report calls *)

InitStore == InitAll

NextStore ==
    \E raw \in StoreReports, open_ok \in BOOLEAN :
        /\ Len(DataRows(store)) < MaxStoreRows
        /\ report(raw, open_ok)

SpecStore == InitStore /\ [][NextStore]_vars

\* C8: whenever a report ends in a write failure (status 500), the store
\* file after the call equals the store file before the call.
C8_FailedAppendLeavesStore ==
    [][(resp'.op = "report" /\ resp'.status = 500) => store' = store]_vars

\* the row a report request stands for: its instant in the format
\* YYYY-MM-DD HH:MM:SS, its page views, its festival flag (0 when left out)
ExpectedRow(raw) ==
    [kind |-> "row",
     timestamp |-> [fmt |-> "space", t |-> raw.timestamp.v.t],
     page_views |-> raw.actual_page_views.v,
     is_festival |-> IF raw.is_festival = Absent THEN 0 ELSE raw.is_festival.v]

IsPrefix(s, t) == Len(s) <= Len(t) /\ SubSeq(t, 1, Len(s)) = s

\* C10: the store is append-only.  Once the file exists its first line is
\* the header and no other line is; a successful report adds exactly one
\* row at the end, the request's row with its timestamp normalised; every
\* line written earlier stays in place.
C10_AppendOnly ==
    [][/\ store'.exists =>
            /\ store'.lines # <<>>
            /\ \A i \in 1..Len(store'.lines) : (store'.lines[i] = HeaderLine) <=> (i = 1)
       /\ IsPrefix(DataRows(store), DataRows(store'))
       /\ store.exists => IsPrefix(store.lines, store'.lines)
       /\ (resp'.op = "report" /\ resp'.status = 200)
            => DataRows(store') = Append(DataRows(store), ExpectedRow(resp'.req))]_vars

C10_Witness ==
    /\ resp.op = "report" /\ resp.status = 200
    /\ resp.req.timestamp.v.fmt = "iso"
    /\ resp.req.is_festival = Absent
    /\ Len(DataRows(store)) = MaxStoreRows
    /\ store.lines[2].is_festival = 1

-----------------------------------------------------------------------------
(* SpecSchema: _ensure_columns and predict_from_df applied to a table *)

ALL_COLS == FEATURE_COLS \o <<"day">>

\* the columns of cols that are in S, in the order of cols
Pick(cols, S) == SelectSeq(cols, LAMBDA c : c \in S)

Reverse(s) == [i \in 1..Len(s) |-> s[Len(s) + 1 - i]]

ColIndex(c) == CHOOSE k \in 1..Len(ALL_COLS) : ALL_COLS[k] = c

\* a table of some of the columns, in canonical or reverse order, with
\* cells that differ from column to column and row to row and a null in
\* some lag cells
ShapeCell(i, c) ==
    IF c \in Range(LAG_COLS) /\ (i + ColIndex(c)) % 2 = 0 THEN NaN
    ELSE R(10 * i + ColIndex(c))

ShapeTable(cols, n) ==
    [cols |-> cols, rows |-> [i \in 1..n |-> [c \in Range(cols) |-> ShapeCell(i, c)]]]

ColumnLists == {Pick(o, S) : o \in {ALL_COLS, Reverse(ALL_COLS)}, S \in SUBSET Range(ALL_COLS)}

LagCells == {NaN, R(60), R(85)}
CalendarRow == [hour |-> R(15), day_of_week |-> R(6), month |-> R(12),
                is_weekend |-> R(1), is_festival |-> R(0)]

\* the table with the calendar columns and the lag columns L, lags[i][c] in
\* lag column c of row i
LagTable(L, n, lags) ==
    [cols |-> Pick(FEATURE_COLS, DOMAIN CalendarRow \cup L),
     rows |-> [i \in 1..n |-> [c \in DOMAIN CalendarRow \cup L |->
                 IF c \in L THEN lags[i][c] ELSE CalendarRow[c]]]]

call_ensure_columns ==
    /\ ret.fn = "none"
    /\ ret' = [fn |-> "_ensure_columns", out |-> _ensure_columns(arg)]
    /\ UNCHANGED <<store, modelFile, driftFile, resp, predictCall, arg, wpc, loaded>>

call_predict_from_df ==
    LET p == predict_from_df(modelFile, arg) IN
    /\ ret.fn = "none"
    /\ ret' = [fn |-> "predict_from_df", out |-> p]
    /\ predictCall' = CallOf(modelFile, p)
    /\ UNCHANGED <<store, modelFile, driftFile, resp, arg, wpc, loaded>>

InitSchema ==
    /\ store = NoFile
    /\ modelFile \in {NoModel, Artifact(FEATURE_COLS, 2, 0)}
    /\ driftFile = [exists |-> FALSE]
    /\ resp = NoResp
    /\ predictCall = NoCall
    /\ \/ \E cols \in ColumnLists, n \in 0..MaxTableRows : arg = ShapeTable(cols, n)
       \/ \E L \in SUBSET Range(LAG_COLS), n \in 1..MaxTableRows :
            \E lags \in [1..n -> [L -> LagCells]] : arg = LagTable(L, n, lags)
    /\ ret = [fn |-> "none"]
    /\ wpc = [at |-> "idle"]
    /\ loaded = <<>>

NextSchema == call_ensure_columns \/ call_predict_from_df

SpecSchema == InitSchema /\ [][NextSchema]_vars

CALENDAR_COLS == {"hour", "day_of_week", "month", "is_weekend", "is_festival"}

\* C2: _ensure_columns returns a table whose columns are exactly lag_1,
\* lag_2, hour, day_of_week, month, is_weekend, is_festival in that order,
\* with as many rows as the input; a column the input lacks holds 0 if it
\* is a calendar column and null if it is a lag; a column the input has
\* keeps its cells; no other column is left.
C2_EnsureColumns ==
    ret.fn = "_ensure_columns" =>
        LET out == ret.out IN
        /\ out.cols = <<"lag_1", "lag_2", "hour", "day_of_week", "month", "is_weekend", "is_festival">>
        /\ Len(out.rows) = Len(arg.rows)
        /\ \A i \in 1..Len(out.rows) :
            /\ DOMAIN out.rows[i] = CALENDAR_COLS \cup {"lag_1", "lag_2"}
            /\ \A c \in DOMAIN out.rows[i] :
                IF c \in Range(arg.cols) THEN out.rows[i][c] = arg.rows[i][c]
                ELSE IF c \in CALENDAR_COLS THEN out.rows[i][c] = R(0)
                ELSE IsNa(out.rows[i][c])

C2_Witness ==
    /\ ret.fn = "_ensure_columns"
    /\ Len(arg.rows) >= 2
    /\ arg.cols = <<"day", "is_festival", "month", "lag_2">>

\* the non-null cells of column c of X
Present(X, c) == {i \in 1..Len(X.rows) : ~IsNa(X.rows[i][c])}

RECURSIVE SumOver(_, _, _)
SumOver(X, c, I) ==
    IF I = {} THEN 0
    ELSE LET i == CHOOSE k \in I : TRUE IN X.rows[i][c].n + SumOver(X, c, I \ {i})

\* v is the mean of the non-null cells of column c of X (whole numbers)
IsMeanOf(v, X, c) ==
    /\ v.d > 0
    /\ v.n * Cardinality(Present(X, c)) = v.d * SumOver(X, c, Present(X, c))

\* C3: in the table predict_from_df hands to model.predict, for each of
\* lag_1 and lag_2 on its own: if every row of the batch is null in that
\* column every row holds 0; otherwise a null cell holds the mean of the
\* non-null cells of that column in the batch and a non-null cell is
\* unchanged; no lag cell is null.
C3_LagImputation ==
    (ret.fn = "predict_from_df" /\ predictCall.made) =>
        LET E == _ensure_columns(arg)
            P == predictCall.X
        IN  /\ Len(P.rows) = Len(E.rows)
            /\ \A c \in {"lag_1", "lag_2"} : \A i \in 1..Len(P.rows) :
                /\ ~IsNa(P.rows[i][c])
                /\ IF Present(E, c) = {} THEN P.rows[i][c] = R(0)
                   ELSE IF IsNa(E.rows[i][c]) THEN IsMeanOf(P.rows[i][c], E, c)
                   ELSE P.rows[i][c] = E.rows[i][c]

C3_Witness ==
    /\ ret.fn = "predict_from_df" /\ predictCall.made
    /\ Len(arg.rows) = 3
    /\ arg.cols = <<"lag_1", "hour", "day_of_week", "month", "is_weekend", "is_festival">>
    /\ Column(arg, "lag_1") = <<NaN, R(85), R(60)>>
    /\ Column(predictCall.X, "lag_1") = <<[n |-> 145, d |-> 2], R(85), R(60)>>
    /\ Column(predictCall.X, "lag_2") = <<R(0), R(0), R(0)>>

-----------------------------------------------------------------------------
(* SpecFeatures: build_training_features and build_features applied to a   *)
(* history that is sorted by time                                          *)

\* first instant and step in hours: daily from 2025-11-27 12:00 (a Thursday),
\* daily from 2025-11-28 12:00 (a Friday), hourly from 2025-12-07 22:00 (a
\* Sunday)
Clocks == {<<330 * 24 + 12, 24>>, <<331 * 24 + 12, 24>>, <<SUN_15 + 7, 1>>}

\* the history of n observations obs[i] = <<page_views, is_festival>> at
\* the instants of a clock
History(n, obs, clock) ==
    [cols |-> CSV_COLS,
     rows |-> [i \in 1..n |-> [timestamp |-> R(clock[1] + (i - 1) * clock[2]),
                               page_views |-> obs[i][1],
                               is_festival |-> obs[i][2]]]]

Observed == {R(90), R(110), NaN} \X {R(0), R(1)}

call_build_training_features ==
    /\ ret.fn = "none"
    /\ ret' = [fn |-> "build_training_features", out |-> build_training_features(arg)]
    /\ UNCHANGED <<store, modelFile, driftFile, resp, predictCall, arg, wpc, loaded>>

call_build_features ==
    /\ ret.fn = "none"
    /\ ret' = [fn |-> "build_features", out |-> build_features(arg)]
    /\ UNCHANGED <<store, modelFile, driftFile, resp, predictCall, arg, wpc, loaded>>

InitFeatures ==
    /\ store = NoFile
    /\ modelFile = NoModel
    /\ driftFile = [exists |-> FALSE]
    /\ resp = NoResp
    /\ predictCall = NoCall
    /\ \E n \in 0..MaxHistory, clock \in Clocks :
        \E obs \in [1..n -> Observed] : arg = History(n, obs, clock)
    /\ ret = [fn |-> "none"]
    /\ wpc = [at |-> "idle"]
    /\ loaded = <<>>

NextFeatures == call_build_training_features \/ call_build_features

SpecFeatures == InitFeatures /\ [][NextFeatures]_vars

Complete(df) == \A i \in 1..Len(df.rows) : \A c \in DOMAIN df.rows[i] : ~IsNa(df.rows[i][c])

\* the feature cells the observation at position i of history h must get
FeaturesAt(h, i, row) ==
    LET t == h.rows[i]["timestamp"].n
        dow == ((t \div 24) + 2) % 7
    IN  /\ row["lag_1"] = h.rows[i - 1]["page_views"]
        /\ row["lag_2"] = h.rows[i - 2]["page_views"]
        /\ row["hour"] = R(t % 24)
        /\ row["day_of_week"] = R(dow)
        /\ row["month"] = R(ts_month(t))
        /\ row["is_weekend"] = R(IF dow >= 5 THEN 1 ELSE 0)
        /\ row["is_festival"] = h.rows[i]["is_festival"]

\* C4: for a time-sorted history of n complete observations, both feature
\* derivers return n - 2 rows (none when n < 3): the observations at the
\* first two positions are dropped, and the row of position i >= 3 holds
\* lag_1 = page_views of position i-1, lag_2 = page_views of position i-2,
\* the calendar fields of its own timestamp, is_weekend = 1 iff
\* day_of_week >= 5, and its own page_views and is_festival.
C4_HistoricalFeatures ==
    (ret.fn \in {"build_training_features", "build_features"} /\ Complete(arg)) =>
        LET n == Len(arg.rows)
            rows == IF ret.fn = "build_features" THEN ret.out.rows ELSE ret.out.X.rows
            pv == IF ret.fn = "build_features" THEN Column(ret.out, "page_views") ELSE ret.out.y
        IN  /\ Len(rows) = (IF n >= 3 THEN n - 2 ELSE 0)
            /\ Len(pv) = Len(rows)
            /\ \A j \in 1..Len(rows) :
                /\ FeaturesAt(arg, j + 2, rows[j])
                /\ pv[j] = arg.rows[j + 2]["page_views"]
            /\ ret.fn = "build_training_features" => ret.out.X.cols = FEATURE_COLS

C4_Witness ==
    /\ ret.fn = "build_features"
    /\ Complete(arg)
    /\ Len(arg.rows) = 4
    /\ Column(arg, "page_views") = <<R(90), R(110), R(110), R(90)>>
    /\ Column(ret.out, "lag_2") = <<R(90), R(110)>>
    /\ Column(ret.out, "is_weekend") = <<R(1), R(0)>>
    /\ Column(ret.out, "month") = <<R(11), R(12)>>

-----------------------------------------------------------------------------
(* SpecDrift: one drift check over a store and a model artifact *)

\* a store of nValid well-formed rows, hourly from 2025-12-05 10:00 (a
\* Friday) in ascending or descending order of insertion, and nBad rows
\* whose timestamp no parser accepts, one before and the rest after
PageViews(shape, i) == IF shape = "wave" /\ i % 3 = 0 THEN 160 ELSE 100

GenStore(nValid, nBad, shape, order) ==
    LET bad == [kind |-> "row", timestamp |-> [fmt |-> "garbage", t |-> 0],
                page_views |-> 100, is_festival |-> 0]
        valid == [i \in 1..nValid |->
                    RowLine(strftime(338 * 24 + 10 + (IF order = "asc" THEN i ELSE nValid + 1 - i)),
                            PageViews(shape, i), IF i % 5 = 0 THEN 1 ELSE 0)]
    IN  [exists |-> TRUE,
         lines |-> <<HeaderLine>> \o (IF nBad >= 1 THEN <<bad>> ELSE <<>>) \o valid
                   \o [i \in 1..(nBad - 1) |-> bad]]

GenStores ==
    {NoFile} \cup
    {GenStore(nValid, nBad, shape, order) :
        nValid \in 0..MaxValidRows, nBad \in 0..MaxBadRows,
        shape \in {"flat", "wave"}, order \in {"asc", "desc"}}

GenModels ==
    {NoModel, Artifact(LEGACY_COLS, 5, 0)}
    \cup {Artifact(FEATURE_COLS, 5, b) : b \in {0, 49, 50, 119, 120}}

InitDrift ==
    /\ store \in GenStores
    /\ modelFile \in GenModels
    /\ driftFile = [exists |-> FALSE]
    /\ resp = NoResp
    /\ predictCall = NoCall
    /\ arg = <<>>
    /\ ret = <<>>
    /\ wpc = [at |-> "idle"]
    /\ loaded = <<>>

NextDrift == detect_drift

SpecDrift == InitDrift /\ [][NextDrift]_vars

\* C5: the decision in the drift report is NO_DRIFT for mae < 50,
\* MILD_DRIFT for 50 <= mae < 120 and SEVERE_DRIFT for mae >= 120.
C5_DriftDecision ==
    driftFile.exists =>
        LET mae == driftFile.report.mae
            decision == driftFile.report.decision
        IN  /\ mae.d > 0 /\ mae.n >= 0
            /\ decision \in {"NO_DRIFT", "MILD_DRIFT", "SEVERE_DRIFT"}
            /\ decision = "NO_DRIFT" <=> mae.n < 50 * mae.d
            /\ decision = "MILD_DRIFT" <=> (50 * mae.d <= mae.n /\ mae.n < 120 * mae.d)
            /\ decision = "SEVERE_DRIFT" <=> mae.n >= 120 * mae.d

C5_Witness ==
    /\ driftFile.exists
    /\ driftFile.report.mae = R(50)
    /\ driftFile.report.decision = "MILD_DRIFT"

\* the rows of the store whose timestamp parses
ValidCount(st) ==
    Cardinality({i \in 1..Len(st.lines) :
        st.lines[i].kind = "row" /\ st.lines[i].timestamp.fmt \in {"iso", "space", "space_nosec"}})

\* C6: a drift check over an existing store with fewer than window + 2
\* well-formed rows ends in the insufficient-history error, which names
\* window + 2 and the number of well-formed rows, without a model prediction
\* and with the drift report left as it was; with window + 2 or more
\* well-formed rows it does not end in that error.
C6_InsufficientHistory ==
    [][(resp'.op = "drift" /\ store.exists) =>
        IF ValidCount(store) < window + 2
        THEN /\ resp'.status = 1
             /\ resp'.err = [msg |-> "Not enough valid data", need |-> window + 2,
                             got |-> ValidCount(store)]
             /\ ~predictCall'.made
             /\ driftFile' = driftFile
        ELSE resp'.err.msg # "Not enough valid data"]_vars

C6_Witness ==
    /\ resp.op = "drift"
    /\ resp.err.msg = "Not enough valid data"
    /\ resp.err.got = window + 1
    /\ Len(DataRows(store)) = window + 3
    /\ modelFile.exists

-----------------------------------------------------------------------------
(* SpecConc: a retrain running while the serving path and the drift check  *)
(* load the model artifact                                                 *)

Readers == {"serve", "drift"}

InitConc ==
    /\ store = GenStore(4, 0, "flat", "asc")
    /\ modelFile \in {NoModel, Artifact(FEATURE_COLS, 2, 0)}
    /\ driftFile = [exists |-> FALSE]
    /\ resp = NoResp
    /\ predictCall = NoCall
    /\ arg = <<>>
    /\ ret = <<>>
    /\ wpc = [at |-> "idle"]
    /\ loaded = [r \in Readers |-> [state |-> "none"]]

NextConc ==
    \/ \E b \in {0, 60} : retrain_begin(b)
    \/ dump_open
    \/ dump_close
    \/ \E r \in Readers : load_model(r)

SpecConc == InitConc /\ [][NextConc]_vars

\* C9: a reader of the model artifact obtains a complete model, the one
\* before or the one after a concurrent retrain, never a partly written
\* file.
C9_AtomicModelRead ==
    \A r \in Readers : loaded[r].state = "loaded" => loaded[r].model.complete

====
